---- MODULE Spec2Model ----
(***************************************************************************)
(* A state-machine model of src/ecs.py: Entity (a dict of components keyed *)
(* by component type), World (the list of live entities, the per-type      *)
(* index `components`, the list of systems) and the World operations.      *)
(*                                                                         *)
(* Python objects are records [cls, id]: cls is the object's concrete      *)
(* class (what type(obj) returns), id its identity.  Lists are sequences,  *)
(* dicts are functions whose DOMAIN is the key set.  World.components is a *)
(* defaultdict(list): it is a function over every component type whose     *)
(* value for a key never written is the empty list.                        *)
(***************************************************************************)
EXTENDS Integers, Sequences, FiniteSets, TLC

VARIABLES
    entities,           \* World.entities: list of Entity objects
    components,         \* World.components: type -> list of objects
    systems,            \* World.systems: list of System objects
    Entity_components,  \* Entity.components of every Entity constructed
    last,               \* the most recent call: its arguments and outcome
    scenario            \* how many steps of the spec's section 8 scenario
                        \* the calls made so far are (-1: some other history)

vars == <<entities, components, systems, Entity_components, last, scenario>>

----------------------------------------------------------------------------
(* Bounds *)

MaxEntities == 2
MaxBucket == 2
MaxSystems == 3
MaxObjects == 5

----------------------------------------------------------------------------
(* Objects *)

Obj(cls, id) == [cls |-> cls, id |-> id]

None == Obj("NoneType", 0)

type(obj) == obj.cls

ComponentTypes == {"Position", "Velocity"}

ComponentObjs == {Obj("Position", 1), Obj("Position", 2), Obj("Velocity", 1)}

EntityObjs == {Obj("Entity", i) : i \in 1..MaxEntities}

\* An Entity the caller constructed itself: no World ever returned it.
Foreign == Obj("Entity", 0)

SystemTypes == {"Movement", "Render"}

SystemObjs == {Obj("Movement", 1), Obj("Movement", 2), Obj("Render", 1)}

----------------------------------------------------------------------------
(* Python built-ins used by the source *)

\* x in lst
In(x, lst) == \E i \in 1..Len(lst) : lst[i] = x

\* lst.remove(x) when x is in lst: deletes the first occurrence only
ListRemove(lst, x) ==
    LET i == CHOOSE k \in 1..Len(lst) :
                 lst[k] = x /\ \A j \in 1..(k - 1) : lst[j] # x
    IN  [j \in 1..(Len(lst) - 1) |-> IF j < i THEN lst[j] ELSE lst[j + 1]]

\* d[k] = v
DictSet(d, k, v) ==
    [x \in DOMAIN d \cup {k} |-> IF x = k THEN v ELSE d[x]]

\* d.pop(k, None), the dict it leaves
DictPop(d, k) == [x \in DOMAIN d \ {k} |-> d[x]]

\* d.get(k, default)
DictGet(d, k, default) == IF k \in DOMAIN d THEN d[k] ELSE default

EmptyDict == [k \in {} |-> None]

\* The outcome of a call: the value returned, or the exception raised.
Return(value) == [ret |-> value, exc |-> "None"]

Raise(exception) == [ret |-> None, exc |-> exception]

\* next(lst, default) with lst a list: a list is iterable but it is not an
\* iterator, so the built-in raises TypeError whatever the list holds.
next(lst, default) == Raise("TypeError")

Call(op, entity, obj, outcome) ==
    [op |-> op, entity |-> entity, obj |-> obj,
     ret |-> outcome.ret, exc |-> outcome.exc]

----------------------------------------------------------------------------
(* The scenario of the spec's section 8, as the calls a driver makes *)

e1 == Obj("Entity", 1)
e2 == Obj("Entity", 2)

ScenarioSteps ==
    << [op |-> "push_entity",    entity |-> None, obj |-> None],
       [op |-> "push_component", entity |-> e1,   obj |-> Obj("Position", 1)],
       [op |-> "push_component", entity |-> e1,   obj |-> Obj("Velocity", 1)],
       [op |-> "push_entity",    entity |-> None, obj |-> None],
       [op |-> "push_component", entity |-> e2,   obj |-> Obj("Position", 2)],
       [op |-> "pop_component",  entity |-> e1,   obj |-> Obj("Position", 0)],
       [op |-> "pop_entity",     entity |-> e2,   obj |-> None] >>

\* The scenario position after one more mutating call.
Track(op, entity, obj) ==
    IF /\ scenario >= 0
       /\ scenario < Len(ScenarioSteps)
       /\ ScenarioSteps[scenario + 1] = [op |-> op, entity |-> entity, obj |-> obj]
    THEN scenario + 1
    ELSE -1

----------------------------------------------------------------------------
(* Entity *)

_has_component(self, component_type) ==
    component_type \in DOMAIN Entity_components[self]

_get_component(self, component_type) ==
    DictGet(Entity_components[self], component_type, None)

\* Entity.components of every entity after self._push_component(component)
_push_component(self, component) ==
    [Entity_components EXCEPT ![self] = DictSet(@, type(component), component)]

\* _pop_component emptying the whole dict (self.components.clear()) instead
\* of popping the one key.
_pop_component_clears(self, component_type) ==
    [Entity_components EXCEPT ![self] = EmptyDict]

\* Entity.components of every entity after self._pop_component(component_type)
_pop_component(self, component_type) ==
    [Entity_components EXCEPT ![self] = DictPop(@, component_type)]

----------------------------------------------------------------------------
(* World: queries *)

has_entity(entity) == In(entity, entities)

has_component(entity, component_type) == In(entity, components[component_type])

get_entities_by_component(component_type) == components[component_type]

get_component_by_entity(entity, component_type) ==
    _get_component(entity, component_type)

\* The comprehension calls _get_component on every entry of the bucket; an
\* entry that is not an Entity has no such method and the call raises.
get_components(component_type) ==
    LET bucket == components[component_type] IN
    IF \E i \in 1..Len(bucket) : type(bucket[i]) # "Entity"
    THEN Raise("AttributeError")
    ELSE Return([i \in 1..Len(bucket) |->
                    _get_component(bucket[i], component_type)])

has_system(system_type) ==
    \E i \in 1..Len(systems) : type(systems[i]) = system_type

get_system(system_type) ==
    next(SelectSeq(systems, LAMBDA system : type(system) = system_type), None)

----------------------------------------------------------------------------
Init ==
    /\ entities = <<>>
    /\ components = [T \in ComponentTypes |-> <<>>]
    /\ systems = <<>>
    /\ Entity_components = [e \in {} |-> EmptyDict]
    /\ last = Call("__init__", None, None, Return(None))
    /\ scenario = 0

----------------------------------------------------------------------------
(* World: entities and components *)

\* push_entity with the append forgotten: the Entity is constructed and
\* returned but never enters World.entities.
push_entity_no_append ==
    /\ Cardinality(DOMAIN Entity_components) < MaxEntities
    /\ LET entity == Obj("Entity", Cardinality(DOMAIN Entity_components) + 1) IN
       /\ Entity_components' =
              [e \in DOMAIN Entity_components \cup {entity} |->
                  IF e = entity THEN EmptyDict ELSE Entity_components[e]]
       /\ last' = Call("push_entity", None, None, Return(entity))
    /\ scenario' = Track("push_entity", None, None)
    /\ UNCHANGED <<entities, components, systems>>

\* push_entity inserting the new entity at the head of the list
\* (self.entities.insert(0, entity)) instead of appending it.
push_entity_prepends ==
    /\ Cardinality(DOMAIN Entity_components) < MaxEntities
    /\ LET entity == Obj("Entity", Cardinality(DOMAIN Entity_components) + 1) IN
       /\ Entity_components' =
              [e \in DOMAIN Entity_components \cup {entity} |->
                  IF e = entity THEN EmptyDict ELSE Entity_components[e]]
       /\ entities' = <<entity>> \o entities
       /\ last' = Call("push_entity", None, None, Return(entity))
    /\ scenario' = Track("push_entity", None, None)
    /\ UNCHANGED <<components, systems>>

push_entity ==
    /\ Cardinality(DOMAIN Entity_components) < MaxEntities
    /\ LET entity == Obj("Entity", Cardinality(DOMAIN Entity_components) + 1) IN
       /\ Entity_components' =
              [e \in DOMAIN Entity_components \cup {entity} |->
                  IF e = entity THEN EmptyDict ELSE Entity_components[e]]
       /\ entities' = Append(entities, entity)
       /\ last' = Call("push_entity", None, None, Return(entity))
    /\ scenario' = Track("push_entity", None, None)
    /\ UNCHANGED <<components, systems>>

\* pop_entity with the bucket loop dropping the last entry of every
\* non-empty bucket (entities.pop()) instead of removing the entity.
pop_entity_pops_bucket(entity) ==
    /\ IF ~In(entity, entities)
       THEN /\ last' = Call("pop_entity", entity, None, Raise("ValueError"))
            /\ UNCHANGED <<entities, components>>
       ELSE /\ entities' = ListRemove(entities, entity)
            /\ components' =
                   [T \in ComponentTypes |->
                       IF Len(components[T]) > 0
                       THEN SubSeq(components[T], 1, Len(components[T]) - 1)
                       ELSE components[T]]
            /\ last' = Call("pop_entity", entity, None, Return(None))
    /\ scenario' = Track("pop_entity", entity, None)
    /\ UNCHANGED <<systems, Entity_components>>

\* pop_entity with the lenient policy: an entity that is not in the list is
\* skipped silently (if entity in self.entities) instead of raising.
pop_entity_lenient(entity) ==
    /\ IF ~In(entity, entities)
       THEN /\ last' = Call("pop_entity", entity, None, Return(None))
            /\ UNCHANGED <<entities, components>>
       ELSE /\ entities' = ListRemove(entities, entity)
            /\ components' =
                   [T \in ComponentTypes |->
                       IF In(entity, components[T])
                       THEN ListRemove(components[T], entity)
                       ELSE components[T]]
            /\ last' = Call("pop_entity", entity, None, Return(None))
    /\ scenario' = Track("pop_entity", entity, None)
    /\ UNCHANGED <<systems, Entity_components>>

pop_entity(entity) ==
    /\ IF ~In(entity, entities)
       THEN /\ last' = Call("pop_entity", entity, None, Raise("ValueError"))
            /\ UNCHANGED <<entities, components>>
       ELSE /\ entities' = ListRemove(entities, entity)
            /\ components' =
                   [T \in ComponentTypes |->
                       IF In(entity, components[T])
                       THEN ListRemove(components[T], entity)
                       ELSE components[T]]
            /\ last' = Call("pop_entity", entity, None, Return(None))
    /\ scenario' = Track("pop_entity", entity, None)
    /\ UNCHANGED <<systems, Entity_components>>

push_component(entity, component) ==
    /\ Len(components[type(component)]) < MaxBucket
    /\ Entity_components' = _push_component(entity, component)
    /\ components' =
           [components EXCEPT ![type(component)] = Append(@, component)]
    /\ last' = Call("push_component", entity, component, Return(None))
    /\ scenario' = Track("push_component", entity, component)
    /\ UNCHANGED <<entities, systems>>

\* pop_component with the default of dict.pop forgotten in the entity
\* (self.components.pop(component_type)): a type the entity does not carry
\* raises KeyError.
pop_component_strict(entity, component_type) ==
    /\ IF ~_has_component(entity, component_type)
       THEN /\ last' = Call("pop_component", entity, Obj(component_type, 0),
                            Raise("KeyError"))
            /\ UNCHANGED <<Entity_components, components>>
       ELSE /\ Entity_components' = _pop_component(entity, component_type)
            /\ components' =
                   IF In(entity, components[component_type])
                   THEN [components EXCEPT
                            ![component_type] = ListRemove(@, entity)]
                   ELSE components
            /\ last' = Call("pop_component", entity, Obj(component_type, 0),
                            Return(None))
    /\ scenario' = Track("pop_component", entity, Obj(component_type, 0))
    /\ UNCHANGED <<entities, systems>>

pop_component(entity, component_type) ==
    /\ Entity_components' = _pop_component(entity, component_type)
    /\ components' =
           IF In(entity, components[component_type])
           THEN [components EXCEPT
                    ![component_type] = ListRemove(@, entity)]
           ELSE components
    /\ last' = Call("pop_component", entity, Obj(component_type, 0), Return(None))
    /\ scenario' = Track("pop_component", entity, Obj(component_type, 0))
    /\ UNCHANGED <<entities, systems>>

\* A query changes nothing; its outcome is recorded in last.
Query(op, entity, obj, outcome) ==
    /\ last' = Call(op, entity, obj, outcome)
    /\ UNCHANGED <<entities, components, systems, Entity_components, scenario>>

call_has_entity(entity) ==
    Query("has_entity", entity, None, Return(has_entity(entity)))

call_has_component(entity, component_type) ==
    Query("has_component", entity, Obj(component_type, 0),
          Return(has_component(entity, component_type)))

call_get_components(component_type) ==
    Query("get_components", None, Obj(component_type, 0),
          get_components(component_type))

call_get_entities_by_component(component_type) ==
    Query("get_entities_by_component", None, Obj(component_type, 0),
          Return(get_entities_by_component(component_type)))

call_get_component_by_entity(entity, component_type) ==
    Query("get_component_by_entity", entity, Obj(component_type, 0),
          Return(get_component_by_entity(entity, component_type)))

----------------------------------------------------------------------------
(* World: systems *)

push_system(system) ==
    /\ Len(systems) < MaxSystems
    /\ systems' = Append(systems, system)
    /\ last' = Call("push_system", None, system, Return(None))
    /\ UNCHANGED <<entities, components, Entity_components, scenario>>

pop_system(system_type) ==
    LET system == get_system(system_type) IN
    /\ IF system.exc # "None"
       THEN /\ last' = Call("pop_system", None, Obj(system_type, 0),
                            Raise(system.exc))
            /\ UNCHANGED systems
       ELSE /\ systems' = IF system.ret # None
                          THEN ListRemove(systems, system.ret)
                          ELSE systems
            /\ last' = Call("pop_system", None, Obj(system_type, 0),
                            Return(None))
    /\ UNCHANGED <<entities, components, Entity_components, scenario>>

call_has_system(system_type) ==
    Query("has_system", None, Obj(system_type, 0),
          Return(has_system(system_type)))

call_get_system(system_type) ==
    Query("get_system", None, Obj(system_type, 0), get_system(system_type))

----------------------------------------------------------------------------
(* Specifications *)

\* The calls that change the entities and the components, made with the
\* Entity objects the World has handed out (live or already destroyed);
\* pop_entity is also called with an Entity the World never returned.
NextMut ==
    \/ push_entity
    \/ \E entity \in DOMAIN Entity_components \cup {Foreign} : pop_entity(entity)
    \/ \E entity \in DOMAIN Entity_components, component \in ComponentObjs :
           push_component(entity, component)
    \/ \E entity \in DOMAIN Entity_components, T \in ComponentTypes :
           pop_component(entity, T)

SpecMut == Init /\ [][NextMut]_vars

\* The queries on entities and components.
NextQuery ==
    \/ \E entity \in DOMAIN Entity_components : call_has_entity(entity)
    \/ \E entity \in DOMAIN Entity_components, T \in ComponentTypes :
           call_has_component(entity, T)
    \/ \E T \in ComponentTypes : call_get_components(T)
    \/ \E T \in ComponentTypes : call_get_entities_by_component(T)
    \/ \E entity \in DOMAIN Entity_components, T \in ComponentTypes :
           call_get_component_by_entity(entity, T)

\* Entities and components: every call, the queries interleaved.
Next ==
    \/ NextMut
    \/ NextQuery

Spec == Init /\ [][Next]_vars

\* The system registry.
NextSys ==
    \/ \E system \in SystemObjs : push_system(system)
    \/ \E S \in SystemTypes : pop_system(S)
    \/ \E S \in SystemTypes : call_has_system(S)
    \/ \E S \in SystemTypes : call_get_system(S)

SpecSys == Init /\ [][NextSys]_vars

\* The number of objects the World holds: the entities constructed, the
\* entries of the index and the registered systems.
RECURSIVE IndexSize(_)
IndexSize(types) ==
    IF types = {} THEN 0
    ELSE LET T == CHOOSE x \in types : TRUE
         IN  Len(components[T]) + IndexSize(types \ {T})

WorldSize ==
    Cardinality(DOMAIN Entity_components) + IndexSize(ComponentTypes)
        + Len(systems)

\* Entities, components and systems together: every call that changes the
\* World, on a World of at most MaxObjects objects.
NextAll ==
    \/ WorldSize < MaxObjects /\ push_entity
    \/ \E entity \in DOMAIN Entity_components \cup {Foreign} : pop_entity(entity)
    \/ \E entity \in DOMAIN Entity_components, component \in ComponentObjs :
           WorldSize < MaxObjects /\ push_component(entity, component)
    \/ \E entity \in DOMAIN Entity_components, T \in ComponentTypes :
           pop_component(entity, T)
    \/ \E system \in SystemObjs :
           WorldSize < MaxObjects /\ push_system(system)
    \/ \E S \in SystemTypes : pop_system(S)

SpecAll == Init /\ [][NextAll]_vars

----------------------------------------------------------------------------
(* Helpers of the properties *)

\* The number of positions of lst that hold x.
Count(x, lst) == Cardinality({i \in 1..Len(lst) : lst[i] = x})

\* lst without any occurrence of x, the other entries in their order.
Without(lst, x) == SelectSeq(lst, LAMBDA y : y # x)

NoDuplicates(lst) ==
    \A i, j \in 1..Len(lst) : lst[i] = lst[j] => i = j

\* The entities constructed so far.
Created == DOMAIN Entity_components

\* The component type a call was made with.
ArgType(call) == type(call.obj)

----------------------------------------------------------------------------
(* Properties *)

\* C1 (invariant I1): in every reachable state, for every entity e and every
\* component type T, e is in the type-index bucket of T if and only if e's
\* own component map holds a component of type T.
C1_I1 ==
    \A e \in Created, T \in ComponentTypes :
        In(e, components[T]) <=> _has_component(e, T)

\* C2: immediately after attachComponent(e, c) on a live entity e,
\* hasComponent(e, type(c)) is true, getComponent(e, type(c)) is c and e
\* appears exactly once in getEntitiesByType(type(c)).
C2_AttachPost ==
    (last.op = "push_component" /\ has_entity(last.entity)) =>
        /\ has_component(last.entity, ArgType(last))
        /\ get_component_by_entity(last.entity, ArgType(last)) = last.obj
        /\ Count(last.entity, get_entities_by_component(ArgType(last))) = 1

\* C3 (invariant I2, replace on attach): attachComponent(e, c2) on an entity
\* that already carries a component of the same type T leaves getComponent(e,
\* T) = c2 and the bucket of T unchanged; and no bucket ever holds the same
\* entry twice.
C3_ReplaceOnAttach ==
    [][ /\ (/\ last'.op = "push_component"
            /\ _has_component(last'.entity, ArgType(last')))
           => /\ \A e \in EntityObjs, T \in ComponentTypes :
                    (e = last'.entity /\ T = ArgType(last'))
                        => get_component_by_entity(e, T)' = last'.obj
              /\ components'[ArgType(last')] = components[ArgType(last')]
        /\ \A T \in ComponentTypes : NoDuplicates(components'[T])
      ]_vars

\* C4: in every reachable state and for every type T, getComponentsByType(T)
\* completes without error, is as long as getEntitiesByType(T), and its i-th
\* element is the component of type T stored in the i-th entity of
\* getEntitiesByType(T).
C4_ComponentsMatchEntities ==
    \A T \in ComponentTypes :
        /\ get_components(T).exc = "None"
        /\ Len(get_components(T).ret) = Len(get_entities_by_component(T))
        /\ \A i \in 1..Len(get_entities_by_component(T)) :
               get_components(T).ret[i] =
                   _get_component(get_entities_by_component(T)[i], T)

C6_EntityLifecycle ==
    [][ \A e \in EntityObjs :
          /\ (last'.op = "push_entity" /\ last'.ret = e) => has_entity(e)'
          /\ (has_entity(e) /\ ~(last'.op = "pop_entity" /\ last'.entity = e))
                 => has_entity(e)'
          /\ (last'.op = "pop_entity" /\ last'.entity = e /\ last'.exc = "None")
                 => ~has_entity(e)'
          /\ (e \in Created /\ ~has_entity(e)) => ~has_entity(e)'
      ]_vars

\* C6 witness: an entity has been destroyed, another one is still live, and
\* a later call has found the destroyed one absent.
C6_Witness ==
    /\ last.op = "has_entity"
    /\ last.ret = FALSE
    /\ Len(entities) >= 1
    /\ Cardinality(Created) > Len(entities)

\* C7: after detachComponent(e, T), getComponent(e, T) is absent,
\* hasComponent(e, T) is false, e is not in getEntitiesByType(T), and the
\* bucket of T holds no leftover entry of e: the component detached from e is
\* in the bucket only if another entity still carries that instance.
C7_DetachPost ==
    [][ (last'.op = "pop_component") =>
          \A e \in EntityObjs, T \in ComponentTypes :
            (e = last'.entity /\ T = ArgType(last')) =>
              /\ get_component_by_entity(e, T)' = None
              /\ ~has_component(e, T)'
              /\ ~In(e, get_entities_by_component(T)')
              /\ (/\ _has_component(e, T)
                  /\ In(_get_component(e, T), get_entities_by_component(T)'))
                 => \E other \in Created \ {e} :
                        _get_component(other, T)' = _get_component(e, T)
      ]_vars

\* C8: the scenario.  After create e1, attach Position and Velocity to e1,
\* create e2, attach Position to e2: getEntitiesByType(Position) = [e1, e2]
\* and getEntitiesByType(Velocity) = [e1]; after detachComponent(e1,
\* Position): getEntitiesByType(Position) = [e2]; after destroyEntity(e2):
\* getEntitiesByType(Position) = [].
C8_Scenario ==
    /\ scenario = 5 =>
           /\ get_entities_by_component("Position") = <<e1, e2>>
           /\ get_entities_by_component("Velocity") = <<e1>>
    /\ scenario = 6 => get_entities_by_component("Position") = <<e2>>
    /\ scenario = 7 => get_entities_by_component("Position") = <<>>

\* C9: after addSystem(s), hasSystem(type(s)) is true; and when exactly one
\* system of type S is registered, removeSystem(S) completes without error
\* and hasSystem(S) is false afterwards.
C9_AddRemoveSystem ==
    [][ \A S \in SystemTypes :
          /\ (last'.op = "push_system" /\ ArgType(last') = S) => has_system(S)'
          /\ (/\ last'.op = "pop_system"
              /\ ArgType(last') = S
              /\ Count(S, [i \in 1..Len(systems) |-> type(systems[i])]) = 1)
             => (last'.exc = "None" /\ ~has_system(S)')
      ]_vars

\* C10: getSystem(S) never raises; it returns the earliest registered system
\* of type S, or the absent value when there is none, and it is non-absent
\* exactly when hasSystem(S).
C10_GetSystem ==
    \A S \in SystemTypes :
        (last.op = "get_system" /\ ArgType(last) = S) =>
            /\ last.exc = "None"
            /\ get_system(S).exc = "None"
            /\ last.ret = get_system(S).ret
            /\ IF has_system(S)
               THEN \E i \in 1..Len(systems) :
                        /\ last.ret = systems[i]
                        /\ type(systems[i]) = S
                        /\ \A j \in 1..(i - 1) : type(systems[j]) # S
               ELSE last.ret = None

\* The concrete types of the registered systems, in registry order.
SystemTypesOf(lst) == [i \in 1..Len(lst) |-> type(lst[i])]

\* lst without its first system of type S (lst itself when it has none).
WithoutFirstOfType(lst, S) ==
    IF \E i \in 1..Len(lst) : type(lst[i]) = S
    THEN LET i == CHOOSE k \in 1..Len(lst) :
                      type(lst[k]) = S /\ \A j \in 1..(k - 1) : type(lst[j]) # S
         IN  [j \in 1..(Len(lst) - 1) |-> IF j < i THEN lst[j] ELSE lst[j + 1]]
    ELSE lst

\* C11: removeSystem(S) raises no error and removes exactly the first
\* registered system of type S, the others keeping their order; when no
\* registered system has type S the registry is unchanged.
C11_RemoveSystemFrame ==
    [][ \A S \in SystemTypes :
          (last'.op = "pop_system" /\ ArgType(last') = S) =>
              /\ last'.exc = "None"
              /\ systems' = WithoutFirstOfType(systems, S)
      ]_vars

\* C12: in every reachable state the registry holds at most one system of
\* each concrete system type.
C12_OneSystemPerType ==
    \A S \in SystemTypes : Count(S, SystemTypesOf(systems)) <= 1

\* C13: destroyEntity(e) on an entity that is not live (already destroyed,
\* or never created by this World) fails with the not-found error of
\* list.remove, and the live-entity list, every bucket, every component map
\* and the system registry are left exactly as they were.
C13_DestroyNotLive ==
    [][ \A e \in EntityObjs \cup {Foreign} :
          (last'.op = "pop_entity" /\ last'.entity = e /\ ~has_entity(e)) =>
              /\ last'.exc = "ValueError"
              /\ UNCHANGED <<entities, components, systems, Entity_components>>
      ]_vars

\* C13 witness: an entity that was created and destroyed is destroyed again
\* while another entity is live and the index is not empty.
C13_Witness ==
    /\ last.op = "pop_entity"
    /\ last.exc = "ValueError"
    /\ last.entity \in Created
    /\ Len(entities) >= 1
    /\ \E T \in ComponentTypes : Len(components[T]) >= 1

\* C14: detachComponent(e, T) on an entity that carries no component of type
\* T raises no error and changes nothing: the live-entity list, e's component
\* map, every bucket and the system registry are as before.
C14_DetachAbsent ==
    [][ \A e \in EntityObjs, T \in ComponentTypes :
          (/\ last'.op = "pop_component"
           /\ last'.entity = e
           /\ ArgType(last') = T
           /\ ~_has_component(e, T))
          => /\ last'.exc = "None"
             /\ entities' = entities
             /\ Entity_components'[e] = Entity_components[e]
             /\ \A T2 \in ComponentTypes :
                    get_entities_by_component(T2)' = get_entities_by_component(T2)
             /\ systems' = systems
      ]_vars

\* C14 witness: a type has been detached from an entity that carries another
\* type while no component of the detached type was ever attached to anyone
\* (its bucket, which the code never shrinks, is empty).
C14_Witness ==
    /\ last.op = "pop_component"
    /\ last.exc = "None"
    /\ get_entities_by_component(ArgType(last)) = <<>>
    /\ \E T2 \in ComponentTypes : _has_component(last.entity, T2)

\* No entity constructed so far carries a component of type T.
NoCarrier(T) == \A e \in Created : ~_has_component(e, T)

QueryOps ==
    {"has_entity", "has_component", "get_components",
     "get_entities_by_component", "get_component_by_entity"}

\* C15: whenever no entity carries type T, getComponentsByType(T) and
\* getEntitiesByType(T) return the empty sequence without error,
\* getComponent(e, T) is absent and hasComponent(e, T) is false; and a query
\* changes neither the live entities, nor any bucket, nor any component map.
C15_EmptyLookups ==
    [][ /\ \A T \in ComponentTypes :
             NoCarrier(T)' =>
                 /\ get_components(T)' = Return(<<>>)
                 /\ get_entities_by_component(T)' = <<>>
                 /\ \A e \in EntityObjs :
                        e \in Created' =>
                            /\ get_component_by_entity(e, T)' = None
                            /\ ~has_component(e, T)'
        /\ last'.op \in QueryOps =>
               UNCHANGED <<entities, components, Entity_components>>
      ]_vars

\* C16: in every reachable state every entry of every bucket is an entity
\* of the live-entity list.
C16_IndexHoldsLiveEntities ==
    \A T \in ComponentTypes :
        \A i \in 1..Len(components[T]) :
            /\ type(components[T][i]) = "Entity"
            /\ has_entity(components[T][i])

\* The entities of lst are in the order of their construction.
InCreationOrder(lst) ==
    \A i, j \in 1..Len(lst) : i < j => lst[i].id < lst[j].id

\* C17: createEntity returns without error an entity that no earlier call
\* had created, with an empty component map; it appends it at the end of the
\* live-entity list, which stays in creation order without duplicates, and
\* it leaves every bucket and the system registry unchanged.
C17_CreateEntity ==
    [][ \A e \in EntityObjs :
          (last'.op = "push_entity" /\ last'.ret = e) =>
              /\ last'.exc = "None"
              /\ e \notin Created
              /\ Entity_components'[e] = EmptyDict
              /\ entities' = Append(entities, e)
              /\ NoDuplicates(entities')
              /\ InCreationOrder(entities')
              /\ UNCHANGED <<components, systems>>
      ]_vars

\* C17 witness: an entity has been created after an earlier one was
\* destroyed, while the index is not empty.
C17_Witness ==
    /\ last.op = "push_entity"
    /\ has_entity(last.ret)
    /\ Cardinality(Created) > Len(entities)
    /\ \E T \in ComponentTypes : Len(components[T]) >= 1

\* C18: attachComponent and detachComponent never change the live-entity
\* list or the system registry and touch only the bucket and the entity slot
\* of the one type involved; addSystem and removeSystem never change the
\* live-entity list, any bucket or any component map; destroyEntity never
\* changes the system registry.
C18_Independence ==
    [][ /\ last'.op \in {"push_component", "pop_component"} =>
               /\ entities' = entities
               /\ systems' = systems
               /\ Created' = Created
               /\ \A T \in ComponentTypes :
                      T # ArgType(last') =>
                          get_entities_by_component(T)' =
                              get_entities_by_component(T)
               /\ \A x \in EntityObjs, T \in ComponentTypes :
                      (x \in Created /\ (x # last'.entity \/ T # ArgType(last')))
                          => /\ _has_component(x, T)' <=> _has_component(x, T)
                             /\ _get_component(x, T)' = _get_component(x, T)
        /\ last'.op \in {"push_system", "pop_system"} =>
               UNCHANGED <<entities, components, Entity_components>>
        /\ last'.op = "pop_entity" => systems' = systems
      ]_vars

\* C18 witness: with a system registered and an entity live, a type has been
\* detached from an entity that carries another type whose bucket is not
\* empty.
C18_Witness ==
    /\ last.op = "pop_component"
    /\ Len(systems) >= 1
    /\ Len(entities) >= 1
    /\ \E T2 \in ComponentTypes :
           /\ T2 # ArgType(last)
           /\ _has_component(last.entity, T2)
           /\ Len(components[T2]) >= 1

====
